---- MODULE Spec2Model ----
(***************************************************************************)
(* A model of VTrack (src/app.py): a FastAPI application that keeps        *)
(* vehicle location updates in one CSV file.                               *)
(*                                                                         *)
(* Text is modelled as a sequence of symbols.  A symbol is either one of   *)
(* the characters the csv module treats specially (comma, double quote,    *)
(* CR, LF), a blank, or a run of ordinary characters ("bob", "vin").       *)
(* The inputs are chosen so that no two adjacent runs spell another run,   *)
(* so equality of symbol sequences is equality of the strings they stand   *)
(* for.  The file CSV_PATH is the text the csv writer produced; every read *)
(* parses that text again with the csv reader's state machine.             *)
(***************************************************************************)
EXTENDS Integers, Sequences, FiniteSets, TLC

VARIABLES
    csv_file,   \* the file at CSV_PATH: [exists |-> BOOLEAN, data |-> text]
    resp,       \* the response to the request handled last (sequential runs)
    log,        \* history: the records appended and not deleted since
    sub,        \* the worker thread running submit(): its locals and response
    del         \* the worker thread running delete_vehicle(): locals, response

vars == <<csv_file, resp, log, sub, del>>

----------------------------------------------------------------------------
(* Bounds of the model *)

\* the most records the file and the history hold in a sequential run
MaxRecords == 2
\* the most records the file and the history hold in a concurrent run
MaxConcRecords == 1

----------------------------------------------------------------------------
(* Symbols and Python values *)

COMMA == ","
QUOTE == "\""
CR == "\r"
LF == "\n"
SPACE == " "

\* Python's None, as a value no text is equal to
None == <<"<None>">>

\* the empty str
EmptyStr == <<>>

\* str.isspace() of one character
IsSpace(c) == c \in {SPACE, LF, CR, "\t"}

RECURSIVE LStrip(_)
LStrip(s) == IF s # <<>> /\ IsSpace(Head(s)) THEN LStrip(Tail(s)) ELSE s

RECURSIVE RStrip(_)
RStrip(s) ==
    IF s # <<>> /\ IsSpace(s[Len(s)]) THEN RStrip(SubSeq(s, 1, Len(s) - 1)) ELSE s

\* str.strip()
Strip(s) == RStrip(LStrip(s))

\* bool(x) of a str or None
Truthy(x) == x # None /\ x # EmptyStr

FIELDNAMES ==
    << <<"timestamp">>, <<"handled_by">>, <<"stock_id">>, <<"vin">>,
       <<"current_location">>, <<"previous_location">> >>

----------------------------------------------------------------------------
(* dict: a sequence of <<key, value>> pairs in insertion order; a later    *)
(* pair with the same key overrides an earlier one, as dict(zip(..)) does. *)

DictKeys(d) == {d[i][1] : i \in 1..Len(d)}

DictGet(d, key, default) ==
    IF key \in DictKeys(d)
    THEN LET last == CHOOSE i \in 1..Len(d) :
                        /\ d[i][1] = key
                        /\ \A j \in (i + 1)..Len(d) : d[j][1] # key
         IN d[last][2]
    ELSE default

\* the dict submit() hands to writerow
RecordDict(rec) == [i \in 1..Len(FIELDNAMES) |-> <<FIELDNAMES[i], rec[i]>>]

----------------------------------------------------------------------------
(* csv.writer, excel dialect: delimiter ",", quotechar '"', doublequote,   *)
(* QUOTE_MINIMAL, lineterminator "\r\n".                                   *)

NeedsQuote(field) ==
    \E i \in 1..Len(field) : field[i] \in {COMMA, QUOTE, CR, LF}

RECURSIVE DoubleQuotes(_)
DoubleQuotes(field) ==
    IF field = <<>> THEN <<>>
    ELSE (IF Head(field) = QUOTE THEN <<QUOTE, QUOTE>> ELSE <<Head(field)>>)
         \o DoubleQuotes(Tail(field))

WriteField(field) ==
    LET text == IF field = None THEN EmptyStr ELSE field
    IN IF NeedsQuote(text) THEN <<QUOTE>> \o DoubleQuotes(text) \o <<QUOTE>>
       ELSE text

RECURSIVE JoinFields(_)
JoinFields(row) ==
    IF row = <<>> THEN <<>>
    ELSE IF Len(row) = 1 THEN WriteField(row[1])
    ELSE WriteField(row[1]) \o <<COMMA>> \o JoinFields(Tail(row))

\* writer.writerow(row): the text of one line
WriteRow(row) == JoinFields(row) \o <<CR, LF>>

\* DictWriter._dict_to_list: extrasaction="raise", restval=""
HasWrongFields(d) ==
    DictKeys(d) \ {FIELDNAMES[i] : i \in 1..Len(FIELDNAMES)} # {}

DictToList(d) == [i \in 1..Len(FIELDNAMES) |-> DictGet(d, FIELDNAMES[i], EmptyStr)]

\* DictWriter.writeheader()
WriteHeader == WriteRow(FIELDNAMES)

\* DictWriter.writerows(rows): the rows are converted lazily, so a dict
\* with a key outside FIELDNAMES raises ValueError before anything of it,
\* or of a later row, is written.
RECURSIVE WriteRows(_)
WriteRows(rows) ==
    IF rows = <<>> THEN [text |-> <<>>, raised |-> FALSE]
    ELSE IF HasWrongFields(Head(rows)) THEN [text |-> <<>>, raised |-> TRUE]
    ELSE LET rest == WriteRows(Tail(rows))
         IN [text |-> WriteRow(DictToList(Head(rows))) \o rest.text,
             raised |-> rest.raised]

----------------------------------------------------------------------------
(* csv.reader: the parser's state machine (Modules/_csv.c,                 *)
(* parse_process_char), fed line by line from a file opened with           *)
(* newline="".                                                             *)

EOL == "<EOL>"

Newline == {LF, CR}

NewlineOrEol == {LF, CR, EOL}

\* the parser's state, with the rows returned so far and the position of
\* the file's iterator in the text
ParseInit == [state |-> "START_RECORD", field |-> <<>>, fields |-> <<>>,
              rows |-> <<>>, error |-> FALSE, pos |-> 1]

SaveField(p) == [p EXCEPT !.fields = Append(p.fields, p.field), !.field = <<>>]

AddChar(p, c) == [p EXCEPT !.field = Append(p.field, c)]

AfterNewline(c) == IF c = EOL THEN "START_RECORD" ELSE "EAT_CRNL"

StartField(p, c) ==
    IF c \in NewlineOrEol THEN [SaveField(p) EXCEPT !.state = AfterNewline(c)]
    ELSE IF c = QUOTE THEN [p EXCEPT !.state = "IN_QUOTED_FIELD"]
    ELSE IF c = COMMA
    THEN [SaveField(p) EXCEPT !.state = "START_FIELD"]
    ELSE [AddChar(p, c) EXCEPT !.state = "IN_FIELD"]

ProcessChar(p, c) ==
    CASE p.state = "START_RECORD" ->
            IF c = EOL THEN p
            ELSE IF c \in Newline THEN [p EXCEPT !.state = "EAT_CRNL"]
            ELSE StartField(p, c)
      [] p.state = "START_FIELD" -> StartField(p, c)
      [] p.state = "IN_FIELD" ->
            IF c \in NewlineOrEol
            THEN [SaveField(p) EXCEPT !.state = AfterNewline(c)]
            ELSE IF c = COMMA THEN [SaveField(p) EXCEPT !.state = "START_FIELD"]
            ELSE AddChar(p, c)
      [] p.state = "IN_QUOTED_FIELD" ->
            IF c = EOL THEN p
            ELSE IF c = QUOTE THEN [p EXCEPT !.state = "QUOTE_IN_QUOTED_FIELD"]
            ELSE AddChar(p, c)
      [] p.state = "QUOTE_IN_QUOTED_FIELD" ->
            IF c = QUOTE THEN [AddChar(p, c) EXCEPT !.state = "IN_QUOTED_FIELD"]
            ELSE IF c = COMMA THEN [SaveField(p) EXCEPT !.state = "START_FIELD"]
            ELSE IF c \in NewlineOrEol
            THEN [SaveField(p) EXCEPT !.state = AfterNewline(c)]
            ELSE [AddChar(p, c) EXCEPT !.state = "IN_FIELD"]
      [] p.state = "EAT_CRNL" ->
            IF c \in Newline THEN p
            ELSE IF c = EOL THEN [p EXCEPT !.state = "START_RECORD"]
            ELSE [p EXCEPT !.error = TRUE]

\* the file's iterator ends a line after LF, after a CR that no LF
\* follows, and at the end of the text
EndsLine(text, i) ==
    \/ text[i] = LF
    \/ text[i] = CR /\ (i = Len(text) \/ text[i + 1] # LF)
    \/ i = Len(text)

\* the characters of the next line through the parser; _csv.Error stops it
RECURSIVE FeedLine(_, _)
FeedLine(p, text) ==
    LET q == [ProcessChar(p, text[p.pos]) EXCEPT !.pos = p.pos + 1]
    IN IF q.error \/ EndsLine(text, p.pos) THEN q ELSE FeedLine(q, text)

\* the end of a line: the parser sees EOL, and when that leaves it at
\* START_RECORD, Reader_iternext returns the fields gathered as one row
EndOfLine(p) ==
    LET q == ProcessChar(p, EOL)
    IN IF q.state = "START_RECORD"
       THEN [q EXCEPT !.rows = Append(q.rows, q.fields), !.fields = <<>>,
                      !.field = <<>>]
       ELSE q

\* Reader_iternext, again and again: each line of the text through the
\* parser and then EOL
RECURSIVE ReadLines(_, _)
ReadLines(text, p) ==
    IF p.pos > Len(text)
    THEN \* the input is exhausted inside a record
         IF p.field # <<>> \/ p.state = "IN_QUOTED_FIELD"
         THEN Append(p.rows, SaveField(p).fields)
         ELSE p.rows
    ELSE LET q == FeedLine(p, text)
         IN IF q.error
            THEN q.rows   \* _csv.Error ends the reading
            ELSE ReadLines(text, EndOfLine(q))

\* list(csv.reader(f)): the rows of the text, blank lines as empty rows
ReaderRows(text) == ReadLines(text, ParseInit)

----------------------------------------------------------------------------
(* csv.DictReader: the first row read is the field names, whatever it      *)
(* holds; blank rows after it are skipped; a short row is padded with      *)
(* restval None, the surplus of a long row goes under restkey None.        *)

Min(a, b) == IF a < b THEN a ELSE b

ZipDict(fieldnames, row) ==
    LET lf == Len(fieldnames)
        lr == Len(row)
        zipped == [i \in 1..Min(lf, lr) |-> <<fieldnames[i], row[i]>>]
    IN IF lf < lr THEN Append(zipped, <<None, SubSeq(row, lf + 1, lr)>>)
       ELSE zipped \o [i \in 1..(lf - lr) |-> <<fieldnames[lr + i], None>>]

NotBlankRow(row) == row # <<>>

RECURSIVE ZipAll(_, _)
ZipAll(fieldnames, rows) ==
    IF rows = <<>> THEN <<>>
    ELSE <<ZipDict(fieldnames, Head(rows))>> \o ZipAll(fieldnames, Tail(rows))

\* list(csv.DictReader(f))
DictReader(text) ==
    LET rows == ReaderRows(text)
    IN IF rows = <<>> THEN <<>>
       ELSE ZipAll(Head(rows), SelectSeq(Tail(rows), NotBlankRow))

----------------------------------------------------------------------------
(* The file at CSV_PATH *)

NoFile == [exists |-> FALSE, data |-> <<>>]

\* open("w") ... write(text)
Overwrite(text) == [exists |-> TRUE, data |-> text]

\* open("a") ... write(text): creates the file when it is missing
AppendText(f, text) == [exists |-> TRUE, data |-> f.data \o text]

----------------------------------------------------------------------------
(* The store functions of src/app.py, each as what it returns from the    *)
(* file f it finds; what it leaves in the file is a definition beside it.  *)

_init_csv(f) == IF ~f.exists THEN Overwrite(WriteHeader) ELSE f

RECURSIVE ScanPrevious(_, _, _, _)
ScanPrevious(rows, vin, stock_id, previous) ==
    IF rows = <<>> THEN previous
    ELSE LET row == Head(rows)
             loc == DictGet(row, <<"current_location">>, None)
             next == IF \/ DictGet(row, <<"vin">>, None) = vin
                        \/ DictGet(row, <<"stock_id">>, None) = stock_id
                     THEN (IF Truthy(loc) THEN loc ELSE previous)
                     ELSE previous
         IN ScanPrevious(Tail(rows), vin, stock_id, next)

_find_previous_location(f, vin, stock_id) ==
    IF ~f.exists THEN None
    ELSE ScanPrevious(DictReader(f.data), vin, stock_id, None)

\* line 55: the file as _load_records leaves it
AfterLoad(f) == _init_csv(f)

\* lines 56-58: the list _load_records returns
_load_records(f) == DictReader(AfterLoad(f).data)

RECURSIVE ScanLatest(_, _, _)
ScanLatest(rows, vin, latest) ==
    IF rows = <<>> THEN latest
    ELSE ScanLatest(Tail(rows), vin,
                    IF DictGet(Head(rows), <<"vin">>, None) = vin
                    THEN Head(rows) ELSE latest)

_find_latest_record_by_vin(f, vin) == ScanLatest(_load_records(f), vin, None)

\* lines 75-85: what _delete_records_by_vin reads of the file and decides
DeleteScan(f, vin) ==
    LET rows == DictReader(f.data)
        KeepRow(row) == DictGet(row, <<"vin">>, None) # vin
        remaining == SelectSeq(rows, KeepRow)
    IN [remaining |-> remaining, removed |-> Len(rows) - Len(remaining)]

\* open("w") on a file, before anything is written
Truncate(f) == [exists |-> TRUE, data |-> <<>>]

\* a rewrite that is skipped when the scan removed nothing
RewriteOnlyWhenRemoved(f, scan) ==
    LET written == WriteRows(scan.remaining)
    IN [file |-> IF scan.removed = 0 THEN f
                 ELSE AppendText(Truncate(f), WriteHeader \o written.text),
        removed |-> scan.removed, raised |-> written.raised]

\* lines 87-92: the rewrite of the file as it is at that moment.  open("w")
\* truncates, the header is written, and a ValueError of writerows leaves
\* the header alone in the file.
DeleteRewrite(f, scan) ==
    LET written == WriteRows(scan.remaining)
    IN [file |-> AppendText(Truncate(f), WriteHeader \o written.text),
        removed |-> scan.removed, raised |-> written.raised]

\* the file it leaves, the count it returns, whether it raised (line 72 never
\* returns: the file exists after line 71)
_delete_records_by_vin(f, vin) ==
    LET g == _init_csv(f)
    IN DeleteRewrite(g, DeleteScan(g, vin))

\* an export that opens the CSV file for writing
BuildRewritesCsv(f) == Overwrite(WriteHeader)

\* The exports read the store through _load_records and write XLSX_PATH and
\* PDF_PATH, which are not part of the store: the CSV file as each leaves it
_build_excel(f) == AfterLoad(f)

_build_pdf(f) == AfterLoad(f)

----------------------------------------------------------------------------
(* Inputs: the form fields and query parameters a request may carry, as    *)
(* sent (before strip), and the values of the server's clock.              *)

RawHandledBy == { <<"bob">>, <<>> }

RawVin == { <<"A">>, <<SPACE, "B", SPACE>>, <<SPACE>> }

RawStockId == { <<"S1">>, <<"S2">>, <<>> }

RawLocation == { <<"L1">>, <<"L", COMMA, QUOTE, LF, "2">>, <<LF>> }

\* datetime.now().isoformat(timespec="seconds")
Timestamps == { <<"t1">> }

----------------------------------------------------------------------------
(* What the model keeps of a request and of the response to it: the       *)
(* handler, the vin the request named once stripped (search, delete), and  *)
(* whether a required field of the form was blank; then the status, the    *)
(* redirect target, the record the search page shows and the number the    *)
(* delete message reports.                                                 *)

NoRedirect == <<>>

\* a form field with nothing but white space in it
IsBlank(raw) == \A i \in 1..Len(raw) : IsSpace(raw[i])

\* a rendered page or a served file
Page(op) ==
    [op |-> op, vin |-> None, blank |-> FALSE, status |-> 200,
     location |-> NoRedirect, result |-> None, removed |-> 0]

\* RedirectResponse(url=path + "?" + param + "=...", status_code=303); the
\* message of a successful delete carries the number removed
Redirect(op, path, param, removed) ==
    [op |-> op, vin |-> None, blank |-> FALSE, status |-> 303,
     location |-> <<path, param>>, result |-> None, removed |-> removed]

\* an exception left the handler: the server answers 500
ServerError(op) ==
    [op |-> op, vin |-> None, blank |-> FALSE, status |-> 500,
     location |-> NoRedirect, result |-> None, removed |-> 0]

\* A request in progress, for the runs in which two requests interleave:
\* where the submit() thread is, with its locals
SubIdle ==
    [pc |-> "idle", form |-> None, previous_location |-> None,
     resp |-> Page("start")]

NoScan == [remaining |-> <<>>, removed |-> 0]

\* where the delete_vehicle() thread is, with its locals, and the records
\* appended to the file since this thread read it
DelIdle ==
    [pc |-> "idle", vin |-> None, scan |-> NoScan, raced |-> <<>>,
     resp |-> Page("start")]

----------------------------------------------------------------------------
(* The history the data model describes: a record enters it when submit()  *)
(* answers success and leaves it when a delete names its vin.              *)

VinOf(rec) == rec[4]

LogAfterDelete(records, vin) ==
    LET Keep(rec) == VinOf(rec) # vin
    IN SelectSeq(records, Keep)

----------------------------------------------------------------------------
(* The handlers, each as one step (one request at a time) *)

Init ==
    /\ csv_file = NoFile
    /\ resp = Page("start")
    /\ log = <<>>
    /\ sub = SubIdle
    /\ del = DelIdle

\* GET /
index ==
    /\ csv_file' = _init_csv(csv_file)
    /\ resp' = Page("index")
    /\ UNCHANGED <<log, sub, del>>

\* GET /search?vin=...
search(raw_vin) ==
    LET vin == Strip(raw_vin)
        result == _find_latest_record_by_vin(csv_file, vin)
    IN /\ IF vin = EmptyStr
          THEN /\ resp' = [Page("search") EXCEPT !.vin = EmptyStr]
               /\ UNCHANGED csv_file
          ELSE /\ resp' = [Page("search") EXCEPT !.vin = vin,
                                                 !.result = result]
               /\ csv_file' = AfterLoad(csv_file)
       /\ UNCHANGED <<log, sub, del>>

\* GET /update
update_form ==
    /\ csv_file' = _init_csv(csv_file)
    /\ resp' = Page("update_form")
    /\ UNCHANGED <<log, sub, del>>

\* lines 198-203: strip the four fields and require each
Stripped(handled_by, vin, stock_id, current_location) ==
    [handled_by |-> Strip(handled_by), vin |-> Strip(vin),
     stock_id |-> Strip(stock_id),
     current_location |-> Strip(current_location)]

\* a validation that forgets stock_id
AllPresentButStockId(form) ==
    /\ form.handled_by # EmptyStr
    /\ form.vin # EmptyStr
    /\ form.current_location # EmptyStr

\* lines 203-204
AllPresent(form) ==
    /\ form.handled_by # EmptyStr
    /\ form.vin # EmptyStr
    /\ form.stock_id # EmptyStr
    /\ form.current_location # EmptyStr

\* lines 210-218: the row written
NewRecord(form, now, previous_location) ==
    <<now, form.handled_by, form.stock_id, form.vin, form.current_location,
      IF Truthy(previous_location) THEN previous_location ELSE EmptyStr>>

\* lines 208-219: open("a") and writerow
AppendRecord(f, rec) == AppendText(f, WriteRow(DictToList(RecordDict(rec))))

\* POST /update
submit(handled_by, vin, stock_id, current_location, now) ==
    LET form == Stripped(handled_by, vin, stock_id, current_location)
        blank == \/ IsBlank(handled_by) \/ IsBlank(vin)
                 \/ IsBlank(stock_id) \/ IsBlank(current_location)
    IN /\ IF ~AllPresent(form)
          THEN /\ resp' = [Redirect("submit", "/update", "error", 0)
                               EXCEPT !.blank = blank]
               /\ UNCHANGED <<csv_file, log>>
          ELSE /\ Len(log) < MaxRecords
               /\ \E previous_location \in
                        {_find_previous_location(csv_file, form.vin, form.stock_id)} :
                     LET rec == NewRecord(form, now, previous_location)
                     IN /\ csv_file' = AppendRecord(csv_file, rec)
                        /\ log' = Append(log, rec)
               /\ resp' = [Redirect("submit", "/update", "success", 0)
                               EXCEPT !.blank = blank]
       /\ UNCHANGED <<sub, del>>

\* GET /download/csv
download_csv ==
    /\ csv_file' = _init_csv(csv_file)
    /\ resp' = Page("download_csv")
    /\ UNCHANGED <<log, sub, del>>

\* GET /download/excel
download_excel ==
    /\ csv_file' = _build_excel(csv_file)
    /\ resp' = Page("download_excel")
    /\ UNCHANGED <<log, sub, del>>

\* GET /download/pdf
download_pdf ==
    /\ csv_file' = _build_pdf(csv_file)
    /\ resp' = Page("download_pdf")
    /\ UNCHANGED <<log, sub, del>>

\* GET /delete
delete_form ==
    /\ resp' = Page("delete_form")
    /\ UNCHANGED <<csv_file, log, sub, del>>

\* lines 262-266: the answer of delete_vehicle once the store has answered
DeleteResponse(outcome) ==
    IF outcome.raised THEN ServerError("delete_vehicle")
    ELSE IF outcome.removed = 0
    THEN Redirect("delete_vehicle", "/delete", "error", 0)
    ELSE Redirect("delete_vehicle", "/delete", "delete", outcome.removed)

\* POST /delete
delete_vehicle(raw_vin) ==
    LET vin == Strip(raw_vin)
    IN /\ IF vin = EmptyStr
          THEN /\ resp' = [Redirect("delete_vehicle", "/delete", "error", 0)
                               EXCEPT !.vin = vin, !.blank = TRUE]
               /\ UNCHANGED <<csv_file, log>>
          ELSE \E outcome \in {_delete_records_by_vin(csv_file, vin)} :
                  /\ csv_file' = outcome.file
                  /\ log' = LogAfterDelete(log, vin)
                  /\ resp' = [DeleteResponse(outcome) EXCEPT !.vin = vin]
       /\ UNCHANGED <<sub, del>>

Next ==
    \/ index
    \/ \E raw_vin \in RawVin : search(raw_vin)
    \/ update_form
    \/ \E handled_by \in RawHandledBy, vin \in RawVin, stock_id \in RawStockId,
          current_location \in RawLocation, now \in Timestamps :
          submit(handled_by, vin, stock_id, current_location, now)
    \/ download_csv
    \/ download_excel
    \/ download_pdf
    \/ delete_form
    \/ \E raw_vin \in RawVin : delete_vehicle(raw_vin)

Spec == Init /\ [][Next]_vars

----------------------------------------------------------------------------
(* Two requests at once.  The server runs the synchronous handlers in a    *)
(* thread pool and nothing locks the file, so a POST /update and a POST    *)
(* /delete interleave between their accesses to the file.  Each access (an *)
(* exists() test, or one with-block from open to close) is one step.       *)

\* lines 198-206: strip, validate, look the previous location up
SubmitBegin(handled_by, vin, stock_id, current_location) ==
    LET form == Stripped(handled_by, vin, stock_id, current_location)
        blank == \/ IsBlank(handled_by) \/ IsBlank(vin)
                 \/ IsBlank(stock_id) \/ IsBlank(current_location)
    IN /\ sub.pc = "idle"
       /\ IF ~AllPresent(form)
          THEN sub' = [SubIdle EXCEPT
                         !.resp = [Redirect("submit", "/update", "error", 0)
                                      EXCEPT !.blank = blank]]
          ELSE /\ Len(log) < MaxConcRecords
               /\ sub' = [pc |-> "append", form |-> form,
                          previous_location |->
                              _find_previous_location(csv_file, form.vin,
                                                      form.stock_id),
                          resp |-> sub.resp]
       /\ UNCHANGED <<csv_file, resp, log, del>>

\* lines 208-221: append the row, answer success
SubmitAppend(now) ==
    /\ sub.pc = "append"
    /\ LET rec == NewRecord(sub.form, now, sub.previous_location)
       IN /\ csv_file' = AppendRecord(csv_file, rec)
          /\ log' = Append(log, rec)
          /\ del' = IF del.pc = "rewrite"
                    THEN [del EXCEPT !.raced = Append(@, rec)]
                    ELSE del
    /\ sub' = [SubIdle EXCEPT
                 !.resp = Redirect("submit", "/update", "success", 0)]
    /\ UNCHANGED resp

\* lines 258-260, then line 71 as far as the exists() test of line 35
DeleteBegin(raw_vin) ==
    LET vin == Strip(raw_vin)
    IN /\ del.pc = "idle"
       /\ IF vin = EmptyStr
          THEN del' = [DelIdle EXCEPT
                         !.resp = [Redirect("delete_vehicle", "/delete",
                                            "error", 0)
                                      EXCEPT !.vin = vin, !.blank = TRUE]]
          ELSE del' = [DelIdle EXCEPT
                         !.pc = IF csv_file.exists THEN "read" ELSE "create",
                         !.vin = vin, !.resp = del.resp]
       /\ UNCHANGED <<csv_file, resp, log, sub>>

\* lines 36-38: the file was missing when tested; write the header
DeleteCreate ==
    /\ del.pc = "create"
    /\ csv_file' = Overwrite(WriteHeader)
    /\ del' = [del EXCEPT !.pc = "read"]
    /\ UNCHANGED <<resp, log, sub>>

\* lines 75-85: read the rows, keep those of other vins
DeleteRead ==
    /\ del.pc = "read"
    /\ del' = [del EXCEPT !.pc = "rewrite",
                          !.scan = DeleteScan(csv_file, del.vin),
                          !.raced = <<>>]
    /\ UNCHANGED <<csv_file, resp, log, sub>>

\* lines 87-92 and 262-266: write the kept rows back, answer
DeleteWrite ==
    /\ del.pc = "rewrite"
    /\ \E outcome \in {DeleteRewrite(csv_file, del.scan)} :
          /\ csv_file' = outcome.file
          /\ del' = [del EXCEPT !.pc = "idle",
                                !.resp = [DeleteResponse(outcome)
                                             EXCEPT !.vin = del.vin]]
    /\ log' = LogAfterDelete(log, del.vin)
    /\ UNCHANGED <<resp, sub>>

NextConc ==
    \/ \E handled_by \in RawHandledBy, vin \in RawVin, stock_id \in RawStockId,
          current_location \in RawLocation :
          SubmitBegin(handled_by, vin, stock_id, current_location)
    \/ \E now \in Timestamps : SubmitAppend(now)
    \/ \E raw_vin \in RawVin : DeleteBegin(raw_vin)
    \/ DeleteCreate
    \/ DeleteRead
    \/ DeleteWrite

ConcSpec == Init /\ [][NextConc]_vars

----------------------------------------------------------------------------
(* The data model's view of a store, against which the claims are stated.  *)

\* the values a stripped, non-blank field takes in the model
Vins == {Strip(v) : v \in RawVin} \ {EmptyStr}

StockIds == {Strip(v) : v \in RawStockId} \ {EmptyStr}

\* vins to look up: those submitted and one that never is
LookupVins == Vins \cup { <<"C">> }

\* the records a file holds: its rows other than the header row, each one
\* written by an append, in the order written
StoredRecords(f) ==
    LET rows == SelectSeq(ReaderRows(f.data), NotBlankRow)
    IN IF rows # <<>> /\ Head(rows) = FIELDNAMES THEN Tail(rows) ELSE rows

StockIdOf(rec) == rec[3]

LocationOf(rec) == rec[5]

PreviousOf(rec) == rec[6]

LastOf(seq) == seq[Len(seq)]

MaxOf(S) == CHOOSE i \in S : \A j \in S : j <= i

\* the current_location of the last record that matches vin or stock_id
LastLocation(records, vin, stock_id) ==
    LET matches == {i \in 1..Len(records) :
                        \/ VinOf(records[i]) = vin
                        \/ StockIdOf(records[i]) = stock_id}
    IN IF matches = {} THEN None ELSE LocationOf(records[MaxOf(matches)])

\* the last record with the vin, as the dict a reader returns for it
LastWithVin(records, vin) ==
    LET matches == {i \in 1..Len(records) : VinOf(records[i]) = vin}
    IN IF matches = {} THEN None ELSE RecordDict(records[MaxOf(matches)])

WithoutVin(records, vin) ==
    LET Differs(rec) == VinOf(rec) # vin
    IN SelectSeq(records, Differs)

IsPrefix(s, t) == Len(s) <= Len(t) /\ SubSeq(t, 1, Len(s)) = s

\* a step in which submit() appended a record
Appended == Len(log') = Len(log) + 1

\* a step in which delete_vehicle() went to the store
Deleted == resp'.op = "delete_vehicle" /\ ~resp'.blank

----------------------------------------------------------------------------
(* Claims *)

\* C1: whenever the file exists, its first row is the header row (and so
\* every data row comes after it), also when a valid POST /update is the
\* first request.
C1_HeaderFirst ==
    csv_file.exists =>
        LET rows == ReaderRows(csv_file.data)
        IN rows # <<>> /\ Head(rows) = FIELDNAMES

\* C2: appending a well-formed record and then loading yields what loading
\* yielded before with the appended record after it, field for field; so N
\* appends yield N more records in order, from any store, a missing file
\* included.
C2_AppendThenLoad ==
    [][Appended =>
        _load_records(csv_file')
            = Append(_load_records(csv_file), RecordDict(LastOf(log')))]_vars

\* C3: delete_by_vin(v) returns the number of records whose vin is v and
\* leaves exactly the other records, unchanged and in their order.
C3_DeleteByVin ==
    [][Deleted =>
        LET before == StoredRecords(csv_file)
            kept == WithoutVin(before, resp'.vin)
        IN /\ resp'.status = 303
           /\ resp'.removed = Len(before) - Len(kept)
           /\ StoredRecords(csv_file') = kept]_vars

\* C4: find_previous_location(vin, stock_id) is the current_location of the
\* last record whose vin or whose stock_id matches, and none when no record
\* matches.
C4_PreviousLocation ==
    \A vin \in LookupVins, stock_id \in StockIds :
        _find_previous_location(csv_file, vin, stock_id)
            = LastLocation(StoredRecords(csv_file), vin, stock_id)

\* C5: a valid POST /update appends exactly one record as the new last row,
\* with the stripped inputs and with previous_location the location that
\* find_previous_location gives on the store before the append, or the
\* empty string when that is none.
C5_AppendRecord ==
    [][Appended =>
        LET rec == LastOf(log')
            found == LastLocation(StoredRecords(csv_file), VinOf(rec),
                                  StockIdOf(rec))
        IN /\ resp'.location = <<"/update", "success">>
           /\ StoredRecords(csv_file') = Append(StoredRecords(csv_file), rec)
           /\ \A i \in 2..5 : rec[i] # EmptyStr /\ Strip(rec[i]) = rec[i]
           /\ PreviousOf(rec) = (IF found = None THEN EmptyStr ELSE found)]_vars

\* C6: a POST /update with a blank field leaves the store as it was (no
\* record added, no file created or rewritten) and answers 303 to /update
\* with an error parameter.
C6_BlankFieldRejected ==
    [][(resp'.op = "submit" /\ resp'.blank) =>
        /\ csv_file' = csv_file
        /\ log' = log
        /\ resp'.status = 303
        /\ resp'.location = <<"/update", "error">>]_vars

C6_Witness ==
    /\ resp.op = "submit"
    /\ resp.blank
    /\ resp.location = <<"/update", "error">>
    /\ StoredRecords(csv_file) # <<>>

\* C7: an export (GET /download/excel, GET /download/pdf) leaves the
\* records that load_all returns as they were.
C7_ExportKeepsStore ==
    [][resp'.op \in {"download_excel", "download_pdf"} =>
        /\ _load_records(csv_file') = _load_records(csv_file)
        /\ log' = log]_vars

C7_Witness ==
    /\ resp.op \in {"download_excel", "download_pdf"}
    /\ _load_records(csv_file) # <<>>

\* C8: a record in the store keeps its six values and its place among the
\* others until a delete names its vin; no other request removes or alters
\* a record.
C8_NeverUpdatedInPlace ==
    [][LET before == StoredRecords(csv_file)
           after == StoredRecords(csv_file')
       IN IF Deleted THEN IsPrefix(WithoutVin(before, resp'.vin), after)
          ELSE IsPrefix(before, after)]_vars

\* C9: find_latest_by_vin(v) is the last record whose vin is v, or none
\* when there is none; so right after an append for v it is the record
\* appended, and right after delete_by_vin(v) it is none.
C9_LatestByVin ==
    \A vin \in LookupVins :
        _find_latest_record_by_vin(csv_file, vin)
            = LastWithVin(StoredRecords(csv_file), vin)

\* the number of rows of a sequence that equal rec
Count(rec, records) ==
    LET Same(r) == r = rec
    IN Len(SelectSeq(records, Same))

\* the step in which the delete thread writes the file back
Rewrote == del.pc = "rewrite" /\ del'.pc = "idle"

\* C10: when a record with a vin other than the delete target is appended
\* (its POST /update answering success) after the delete has read the file
\* and before it rewrites it, the rewrite drops that record: a lost update,
\* in every interleaving of that shape, and such an interleaving exists.
C10_LostUpdate ==
    [][Rewrote =>
        \A i \in 1..Len(del.raced) :
            LET rec == del.raced[i]
            IN VinOf(rec) # del.vin =>
                  /\ Count(rec, StoredRecords(csv_file)) > 0
                  /\ Count(rec, StoredRecords(csv_file'))
                        < Count(rec, StoredRecords(csv_file))]_vars

C10_Witness ==
    /\ del.pc = "idle"
    /\ sub.pc = "idle"
    /\ del.resp.op = "delete_vehicle"
    /\ del.resp.status = 303
    /\ sub.resp.location = <<"/update", "success">>
    /\ \E i \in 1..Len(del.raced) :
          /\ VinOf(del.raced[i]) # del.vin
          /\ Count(del.raced[i], StoredRecords(csv_file)) = 0

====
